---- MODULE Spec2Model ----
(***************************************************************************)
(* The orchestration core of VLM-Agent-Scaling: the Collaboration Manager  *)
(* (agents/base/collaboration_manager.py), the agent contract              *)
(* (agents/base/base_agent.py and the agents' process methods) and the     *)
(* three-tier run_pipeline (run_pipeline.py).                              *)
(*                                                                         *)
(* Confidences are Python floats in the source; here they are exact        *)
(* rationals <<numerator, denominator>> in lowest terms.                   *)
(***************************************************************************)
EXTENDS Integers, Sequences, FiniteSets, TLC

VARIABLES
    agents,                   \* CollaborationManager._agents: name -> registered agent
    confidence_threshold,     \* CollaborationManager.confidence_threshold
    max_collaboration_rounds, \* CollaborationManager.max_collaboration_rounds
    cm_pc,                    \* where the running manager call stands
    cm_op,                    \* which manager operation is running
    cm_requester,             \* requesting_agent / primary_agent argument
    cm_input,                 \* input_data argument
    cm_current,               \* current_result / primary_result argument
    cm_calls,                 \* the agent invocations made by this call, in order
    cm_results,               \* what each of those invocations gave back
    cm_entries,               \* entries into the manager during this call
    cm_ret,                   \* the value the call returned
    pl_pc,                    \* run_pipeline: idle, running, or how it ended
    pl_step,                  \* run_pipeline: which process call comes next
    pl_image_path,            \* run_pipeline's image_path argument
    pl_question,              \* run_pipeline's question (after the default)
    pl_arg_question,          \* run_pipeline's question argument as passed
    pl_invoked,               \* the process calls made so far, in order, with inputs
    pl_outputs,               \* the *_output locals: agent -> value assigned
    pl_error,                 \* the kind of exception that reached the handler
    pl_failed,                \* the agent whose call line raised
    pl_final,                 \* the value run_pipeline returned
    ag_pc,                    \* an awaited process call: idle, or how it ended
    ag_agent,                 \* the agent whose process was called
    ag_input,                 \* the AgentInput it was called on
    ag_entered_try,           \* whether the call got past validation into its try block
    ag_output,                \* the AgentOutput it returned
    ag_metadata,              \* the confidence figures in that output's metadata
    ag_error,                 \* the kind of exception it raised
    ag_message,               \* the message of that exception
    ag_valid,                 \* what validate_input gave the call
    frames,                   \* concurrent callers of the manager: caller -> its call
    mv_pc,                    \* run_mmvet_v2_test: where the run stands
    mv_dataset,               \* the dataset file: the question ids in order
    mv_malformed,             \* the ids whose question text holds no "<IMG>"
    mv_file,                  \* the results file: id -> stored result, None if absent
    mv_results,               \* the running run's `results` dict
    mv_pos,                   \* the loop's position in the dataset
    mv_runs,                  \* the runs started so far
    mv_calls,                 \* id -> run_pipeline calls made for it, over all runs
    mv_stores,                \* id -> assignments `results[qid] = ...`, over all runs
    mv_raised                 \* the ids whose pipeline run raised

cmVars == <<agents, confidence_threshold, max_collaboration_rounds, cm_pc, cm_op,
            cm_requester, cm_input, cm_current, cm_calls, cm_results, cm_entries,
            cm_ret>>
plVars == <<pl_pc, pl_step, pl_image_path, pl_question, pl_arg_question, pl_invoked,
            pl_outputs, pl_error, pl_failed, pl_final>>
agVars ==
    <<ag_pc, ag_agent, ag_input, ag_entered_try, ag_output, ag_metadata, ag_error,
      ag_message, ag_valid>>
mvVars ==
    <<mv_pc, mv_dataset, mv_malformed, mv_file, mv_results, mv_pos, mv_runs, mv_calls,
      mv_stores, mv_raised>>
vars == <<cmVars, plVars, agVars, frames, mvVars>>

----------------------------------------------------------------------------
(* Rationals *)

RECURSIVE GCD(_, _)
GCD(a, b) == IF b = 0 THEN a ELSE GCD(b, a % b)

Rat(n, d) == LET g == GCD(n, d) IN IF g = 0 THEN <<0, 1>> ELSE <<n \div g, d \div g>>

RLt(a, b) == a[1] * b[2] < b[1] * a[2]
RGt(a, b) == RLt(b, a)
RGeq(a, b) == ~RLt(a, b)
RLeq(a, b) == ~RLt(b, a)

----------------------------------------------------------------------------
(* Values *)

\* Python's None, for an optional field left unset.
None == "None"

\* previous_responses left at its default None: a value that is no list.
NoList == [i \in {0} |-> None]

\* AgentOutput(result, confidence, metadata); id stands for the object's identity.
AgentOutput(id, result, confidence) ==
    [kind |-> "output", id |-> id, result |-> result, confidence |-> confidence]

\* What calling an `async def process` gives back: a coroutine object, its body not run.
Coroutine(id) == [kind |-> "coroutine", id |-> id]

\* An invocation that raised gave nothing back.
Raised(id) == [kind |-> "raised", id |-> id]

\* AgentInput(image_path, question, previous_responses); metadata is never set.
AgentInput(image_path, question, previous_responses) ==
    [image_path |-> image_path, question |-> question,
     previous_responses |-> previous_responses]

IsOutput(v) == v.kind = "output"

----------------------------------------------------------------------------
(* Collaboration Manager: agents/base/collaboration_manager.py *)

\* The names a caller may pass as requesting_agent / primary_agent, or register.
\* BaseAgent.request_collaboration passes the class name, lowercased, less "agent".
AgentNames == {"ocr", "common", "relation"}

\* How a registered agent's process is defined: BaseAgent, OCRAgent and
\* Refiner1Agent define `def process`; CommonAgent, RelationAgent, Refiner2Agent,
\* Refiner3Agent and RetrieverAgent define `async def process`.
ProcessKinds == {"def", "async def"}

\* The confidences a caller passes in or an invoked agent returns.
Confidences == {<<1, 10>>, <<1, 2>>, <<3, 5>>, <<7, 10>>, <<9, 10>>}

ImagePaths == {"a.png", "b.png"}
Questions == {None, "q"}

\* CollaborationManager.__init__
InitialThreshold == <<7, 10>>
InitialRounds == 3

\* `current_result.confidence >= self.confidence_threshold`
MeetsThreshold_Strict(result) == RGt(result.confidence, confidence_threshold)
MeetsThreshold(result) == RGeq(result.confidence, confidence_threshold)

\* `verification_result.confidence > current_result.confidence`
IsBetter_Flipped(new, old) == RLt(new.confidence, old.confidence)
IsBetter_OrEqual(new, old) == RGeq(new.confidence, old.confidence)
IsBetter(new, old) == RGt(new.confidence, old.confidence)

\* `ocr_result.confidence > 0.5`
OcrFoundText(ocr_result) == RGt(ocr_result.confidence, <<1, 2>>)

\* `validator_name = "common" if primary_agent == "ocr" else "ocr"`
ValidatorName_Self(primary_agent) == primary_agent
ValidatorName(primary_agent) == IF primary_agent = "ocr" THEN "common" ELSE "ocr"

\* `elif requesting_agent == "common"`
IsRoleB_NotRoleA(requesting_agent) == requesting_agent # "ocr"
IsRoleB(requesting_agent) == requesting_agent = "common"

\* get_agent: self._agents.get(name)
get_agent(name) == agents[name]

\* The question of the role-A branch's verification input (a fixed string).
VerificationQuestion == "Can you verify if there is any text in this image? If yes, what is it?"

\* The question of the role-B branch's focused re-analysis input:
\* "Please perform a detailed OCR analysis, ...: " + input_data.question
DetailedQuestion(question) == "Please perform a detailed OCR analysis: " \o question

\* No agent's process calls _handle_low_confidence or request_collaboration.
HandlesLowConfidence_Does(name) == TRUE
HandlesLowConfidence(name) == FALSE

\* BaseAgent._handle_low_confidence: with `result.confidence < 0.7` the agent enters
\* the manager through BaseAgent.request_collaboration, once.
ReentryCount(name, outcome) ==
    IF HandlesLowConfidence(name) /\ IsOutput(outcome)
       /\ RLt(outcome.confidence, <<7, 10>>)
    THEN 1 ELSE 0

\* What the k-th invocation of this call, of the agent registered as name, gives back.
ProcessOutcomes(name, k) ==
    IF agents[name] = "async def"
    THEN {Coroutine(<<name, k>>)}
    ELSE {AgentOutput(<<name, k>>, "text", c) : c \in Confidences}
         \cup {Raised(<<name, k>>)}

\* The current_result / primary_result a caller passes in.
CallerResults == {AgentOutput(<<"caller", 0>>, "text", c) : c \in Confidences}
CallerInputs == {AgentInput(i, q, NoList) : i \in ImagePaths, q \in Questions}

NoFrame == [kind |-> "none"]

CMIdle ==
    /\ cm_pc = "idle" /\ cm_op = "none" /\ cm_requester = None
    /\ cm_input = NoFrame /\ cm_current = NoFrame
    /\ cm_calls = <<>> /\ cm_results = <<>> /\ cm_entries = 0 /\ cm_ret = NoFrame

CMInit ==
    /\ agents = [n \in AgentNames |-> None]
    /\ confidence_threshold = InitialThreshold
    /\ max_collaboration_rounds = InitialRounds
    /\ CMIdle

CMCallable == cm_pc \in {"idle", "returned", "raised"}
CMState == <<agents, confidence_threshold, max_collaboration_rounds>>

\* register_agent(name, agent)
RegisterAgent(name, kind) ==
    /\ CMCallable
    /\ agents' = [agents EXCEPT ![name] = kind]
    /\ cm_pc' = "idle" /\ cm_op' = "none" /\ cm_requester' = None
    /\ cm_input' = NoFrame /\ cm_current' = NoFrame
    /\ cm_calls' = <<>> /\ cm_results' = <<>> /\ cm_entries' = 0 /\ cm_ret' = NoFrame
    /\ UNCHANGED <<confidence_threshold, max_collaboration_rounds, plVars, agVars, frames, mvVars>>

\* The running call returns value, having made the invocations calls.
CMReturn(calls, value) ==
    cm_pc' = "returned" /\ cm_ret' = value /\ cm_calls' = calls
\* The running call ends with an exception.
CMRaise(calls) ==
    cm_pc' = "raised" /\ cm_ret' = NoFrame /\ cm_calls' = calls
\* The running call invokes agent name's process on input and waits for it at label.
CMInvoke(calls, label, name, input) ==
    /\ cm_pc' = label /\ cm_ret' = NoFrame
    /\ cm_calls' = Append(calls, [agent |-> name, input |-> input])

\* request_collaboration(requesting_agent, input_data, current_result), up to its
\* first agent invocation or its return.
RequestCollaboration(requesting_agent, input_data, current_result) ==
    /\ CMCallable
    /\ cm_op' = "request_collaboration"
    /\ cm_requester' = requesting_agent
    /\ cm_input' = input_data
    /\ cm_current' = current_result
    /\ cm_results' = <<>>
    /\ cm_entries' = 1
    /\ IF MeetsThreshold(current_result)
       THEN CMReturn(<<>>, current_result)
       ELSE IF requesting_agent = "ocr"
       THEN IF get_agent("common") # None
            THEN CMInvoke(<<>>, "verify", "common",
                          AgentInput(input_data.image_path, VerificationQuestion,
                                     <<current_result>>))
            ELSE CMReturn(<<>>, current_result)
       ELSE IF IsRoleB(requesting_agent)
       THEN IF get_agent("ocr") # None
            THEN IF input_data.question = None
                 \* `"..." + input_data.question` with question None: TypeError
                 THEN CMRaise(<<>>)
                 ELSE CMInvoke(<<>>, "detail", "ocr",
                               AgentInput(input_data.image_path,
                                          DetailedQuestion(input_data.question),
                                          <<current_result>>))
            ELSE CMReturn(<<>>, current_result)
       ELSE CMReturn(<<>>, current_result)
    /\ UNCHANGED <<CMState, plVars, agVars, frames, mvVars>>

\* The invocation the running call waits for, and its place among the call's invocations.
Pending == cm_calls[Len(cm_calls)]
CMFrame == <<cm_op, cm_requester, cm_input, cm_current>>

\* Role-A branch: common_agent.process(verification_input) comes back.
VerificationReturns ==
    /\ cm_pc = "verify"
    /\ \E outcome \in ProcessOutcomes(Pending.agent, Len(cm_calls)) :
        /\ cm_results' = Append(cm_results, outcome)
        /\ cm_entries' = cm_entries + ReentryCount(Pending.agent, outcome)
        /\ IF outcome.kind = "raised"
           THEN CMRaise(cm_calls)
           ELSE IF outcome.kind = "coroutine"
           \* `verification_result.confidence` on a coroutine: AttributeError
           THEN CMRaise(cm_calls)
           ELSE IF IsBetter(outcome, cm_current)
           THEN CMReturn(cm_calls, outcome)
           ELSE CMReturn(cm_calls, cm_current)
    /\ UNCHANGED <<CMState, CMFrame, plVars, agVars, frames, mvVars>>

\* Role-B branch: ocr_agent.process(detailed_input) comes back.
DetailedOcrReturns ==
    /\ cm_pc = "detail"
    /\ \E outcome \in ProcessOutcomes(Pending.agent, Len(cm_calls)) :
        /\ cm_results' = Append(cm_results, outcome)
        /\ cm_entries' = cm_entries + ReentryCount(Pending.agent, outcome)
        /\ IF outcome.kind = "raised"
           THEN CMRaise(cm_calls)
           ELSE IF outcome.kind = "coroutine"
           \* `ocr_result.confidence` on a coroutine: AttributeError
           THEN CMRaise(cm_calls)
           ELSE IF OcrFoundText(outcome)
           THEN IF get_agent("common") = None
                \* `self.get_agent("common").process` on None: AttributeError
                THEN CMRaise(cm_calls)
                ELSE CMInvoke(cm_calls, "retry", "common",
                              AgentInput(cm_input.image_path, cm_input.question,
                                         <<outcome, cm_current>>))
           ELSE CMReturn(cm_calls, cm_current)
    /\ UNCHANGED <<CMState, CMFrame, plVars, agVars, frames, mvVars>>

\* Role-B branch: `return self.get_agent("common").process(new_input)`.
RetryReturns ==
    /\ cm_pc = "retry"
    /\ \E outcome \in ProcessOutcomes(Pending.agent, Len(cm_calls)) :
        /\ cm_results' = Append(cm_results, outcome)
        /\ cm_entries' = cm_entries + ReentryCount(Pending.agent, outcome)
        /\ IF outcome.kind = "raised"
           THEN CMRaise(cm_calls)
           \* whatever process gave back is returned as it is, a coroutine too
           ELSE CMReturn(cm_calls, outcome)
    /\ UNCHANGED <<CMState, CMFrame, plVars, agVars, frames, mvVars>>

\* cross_validate(primary_result, input_data, primary_agent), up to its agent
\* invocation or its return.
CrossValidate(primary_result, input_data, primary_agent) ==
    /\ CMCallable
    /\ cm_op' = "cross_validate"
    /\ cm_requester' = primary_agent
    /\ cm_input' = input_data
    /\ cm_current' = primary_result
    /\ cm_results' = <<>>
    /\ cm_entries' = 1
    /\ IF MeetsThreshold(primary_result)
       THEN CMReturn(<<>>, primary_result)
       ELSE IF get_agent(ValidatorName(primary_agent)) = None
       THEN CMReturn(<<>>, primary_result)
       ELSE CMInvoke(<<>>, "validate", ValidatorName(primary_agent),
                     AgentInput(input_data.image_path, input_data.question,
                                <<primary_result>>))
    /\ UNCHANGED <<CMState, plVars, agVars, frames, mvVars>>

\* cross_validate: validator.process(validation_input) comes back.
ValidationReturns ==
    /\ cm_pc = "validate"
    /\ \E outcome \in ProcessOutcomes(Pending.agent, Len(cm_calls)) :
        /\ cm_results' = Append(cm_results, outcome)
        /\ cm_entries' = cm_entries + ReentryCount(Pending.agent, outcome)
        /\ IF outcome.kind = "raised"
           THEN CMRaise(cm_calls)
           ELSE IF outcome.kind = "coroutine"
           \* `validation_result.confidence` on a coroutine: AttributeError
           THEN CMRaise(cm_calls)
           ELSE IF IsBetter(outcome, cm_current)
           THEN CMReturn(cm_calls, outcome)
           ELSE CMReturn(cm_calls, cm_current)
    /\ UNCHANGED <<CMState, CMFrame, plVars, agVars, frames, mvVars>>

----------------------------------------------------------------------------
(* Concurrently running agents calling the one Collaboration Manager *)

\* The agents that call the manager at the same time, each from its own thread.
Callers == {1, 2}

\* What the concurrent callers pass in.
ConcurrentConfidences == {<<1, 10>>, <<3, 5>>, <<9, 10>>}
ConcurrentResults(c) ==
    {AgentOutput(<<"caller", c>>, "text", conf) : conf \in ConcurrentConfidences}
ConcurrentInputs == {AgentInput("a.png", "What is shown?", NoList)}

\* A call's parameters and locals live in the call's own frame, one per running call.
IdleCall ==
    [pc |-> "idle", op |-> "none", requester |-> None, input |-> NoFrame,
     current |-> NoFrame, calls |-> <<>>, results |-> <<>>, ret |-> NoFrame]
EnteredCall(op, requester, input_data, current_result) ==
    [pc |-> "entered", op |-> op, requester |-> requester, input |-> input_data,
     current |-> current_result, calls |-> <<>>, results |-> <<>>, ret |-> NoFrame]
CallReturn(f, value) == [f EXCEPT !.pc = "returned", !.ret = value]
CallRaise(f) == [f EXCEPT !.pc = "raised", !.ret = NoFrame]
CallInvoke(f, label, name, input) ==
    [f EXCEPT !.pc = label, !.calls = Append(@, [agent |-> name, input |-> input])]

CallPending(f) == f.pc \in {"verify", "detail", "retry", "validate"}

\* `current_result` / `primary_result`: the parameter of caller c's own call, which
\* the other caller's call, running in between, cannot assign.
CurrentOf_Shared(c) ==
    LET other == CHOOSE d \in Callers : d # c
    IN IF frames[other].pc = "idle" THEN frames[c].current ELSE frames[other].current
CurrentOf(c) == frames[c].current

ConcurrentInit == frames = [c \in Callers |-> IdleCall]

\* register_agent(name, agent) during setup, before the agents run.
SetupRegisterAgent(name, kind) ==
    /\ \A c \in Callers : ~CallPending(frames[c])
    /\ agents' = [agents EXCEPT ![name] = kind]
    /\ frames' = [c \in Callers |-> IdleCall]
    /\ UNCHANGED <<confidence_threshold, max_collaboration_rounds,
                   cm_pc, cm_op, cm_requester, cm_input, cm_current, cm_calls,
                   cm_results, cm_entries, cm_ret, plVars, agVars, mvVars>>

\* Caller c's request_collaboration(requesting_agent, input_data, current_result),
\* up to its first agent invocation or its return.
ConcurrentRequestCollaboration(c, requesting_agent, input_data, current_result) ==
    LET f == EnteredCall("request_collaboration", requesting_agent, input_data,
                         current_result)
    IN /\ ~CallPending(frames[c])
       /\ frames' = [frames EXCEPT ![c] =
            IF MeetsThreshold(current_result)
            THEN CallReturn(f, current_result)
            ELSE IF requesting_agent = "ocr"
            THEN IF get_agent("common") # None
                 THEN CallInvoke(f, "verify", "common",
                                 AgentInput(input_data.image_path, VerificationQuestion,
                                            <<current_result>>))
                 ELSE CallReturn(f, current_result)
            ELSE IF IsRoleB(requesting_agent)
            THEN IF get_agent("ocr") # None
                 THEN IF input_data.question = None
                      THEN CallRaise(f)
                      ELSE CallInvoke(f, "detail", "ocr",
                                      AgentInput(input_data.image_path,
                                                 DetailedQuestion(input_data.question),
                                                 <<current_result>>))
                 ELSE CallReturn(f, current_result)
            ELSE CallReturn(f, current_result)]
       /\ UNCHANGED <<cmVars, plVars, agVars, mvVars>>

\* Caller c's cross_validate(primary_result, input_data, primary_agent), up to its
\* agent invocation or its return.
ConcurrentCrossValidate(c, primary_result, input_data, primary_agent) ==
    LET f == EnteredCall("cross_validate", primary_agent, input_data, primary_result)
    IN /\ ~CallPending(frames[c])
       /\ frames' = [frames EXCEPT ![c] =
            IF MeetsThreshold(primary_result)
            THEN CallReturn(f, primary_result)
            ELSE IF get_agent(ValidatorName(primary_agent)) = None
            THEN CallReturn(f, primary_result)
            ELSE CallInvoke(f, "validate", ValidatorName(primary_agent),
                            AgentInput(input_data.image_path, input_data.question,
                                       <<primary_result>>))]
       /\ UNCHANGED <<cmVars, plVars, agVars, mvVars>>

\* The agent that caller c's call invoked comes back, and the call goes on to its
\* next invocation or its end.
ConcurrentProcessReturns(c) ==
    LET f == frames[c]
        pending == f.calls[Len(f.calls)]
    IN /\ CallPending(f)
       /\ \E outcome \in ProcessOutcomes(pending.agent, Len(f.calls)) :
            LET g == [f EXCEPT !.results = Append(@, outcome)]
            IN frames' = [frames EXCEPT ![c] =
                 IF outcome.kind = "raised"
                 THEN CallRaise(g)
                 ELSE IF f.pc = "retry"
                 THEN CallReturn(g, outcome)
                 ELSE IF outcome.kind = "coroutine"
                 THEN CallRaise(g)
                 ELSE IF f.pc = "detail"
                 THEN IF OcrFoundText(outcome)
                      THEN IF get_agent("common") = None
                           THEN CallRaise(g)
                           ELSE CallInvoke(g, "retry", "common",
                                           AgentInput(f.input.image_path,
                                                      f.input.question,
                                                      <<outcome, CurrentOf(c)>>))
                      ELSE CallReturn(g, CurrentOf(c))
                 ELSE IF IsBetter(outcome, CurrentOf(c))
                 THEN CallReturn(g, outcome)
                 ELSE CallReturn(g, CurrentOf(c))]
       /\ UNCHANGED <<cmVars, plVars, agVars, mvVars>>

----------------------------------------------------------------------------
(* Rational arithmetic of the confidence formulas *)

RAdd(a, b) == Rat(a[1] * b[2] + b[1] * a[2], a[2] * b[2])
RMul(a, b) == Rat(a[1] * b[1], a[2] * b[2])
RDiv(a, b) ==
    IF b[1] < 0 THEN Rat(-(a[1] * b[2]), a[2] * (-b[1]))
    ELSE Rat(a[1] * b[2], a[2] * b[1])
RMin2_Larger(a, b) == IF RLt(b, a) THEN a ELSE b
RMin2(a, b) == IF RLt(b, a) THEN b ELSE a

RECURSIVE RSum(_)
RSum(s) == IF s = <<>> THEN <<0, 1>> ELSE RAdd(s[1], RSum(Tail(s)))

\* max(confidences), min(confidences)
RMax(s) == CHOOSE x \in {s[i] : i \in 1..Len(s)} :
               \A j \in 1..Len(s) : RGeq(x, s[j])
RMin(s) == CHOOSE x \in {s[i] : i \in 1..Len(s)} :
               \A j \in 1..Len(s) : RLeq(x, s[j])

\* [resp.confidence for resp in input_data.previous_responses]
ConfidencesOf(previous_responses) ==
    [i \in 1..Len(previous_responses) |-> previous_responses[i].confidence]

\* sum(confidences) / len(confidences)
Mean(confs) == RDiv(RSum(confs), <<Len(confs), 1>>)

----------------------------------------------------------------------------
(* The agents' process and validate_input *)

PipelineAgents ==
    {"ocr", "relation", "common", "refiner1", "refiner2", "refiner3", "retriever"}

\* `async def process` (a call gives a coroutine back) or `def process`.
IsAsyncProcess(agent) ==
    agent \in {"relation", "common", "refiner2", "refiner3", "retriever"}

Tier(agent) ==
    IF agent \in {"ocr", "relation", "common"} THEN 1
    ELSE IF agent = "retriever" THEN 3 ELSE 2

\* Python truthiness of an optional string, and of an optional list.
Truthy(x) == x # None /\ x # ""
NonEmptyList(x) == x # NoList /\ x # <<>>

\* validate_input of each agent
ValidateInput_NoTypeCheck(agent, input) ==
    CASE Tier(agent) = 1 -> Truthy(input.image_path)
      [] agent = "refiner1" ->
            /\ NonEmptyList(input.previous_responses)
            /\ Truthy(input.question) /\ Truthy(input.image_path)
      [] agent \in {"refiner2", "refiner3", "retriever"} ->
            NonEmptyList(input.previous_responses) /\ Truthy(input.question)
ValidateInput(agent, input) ==
    CASE Tier(agent) = 1 -> Truthy(input.image_path)
      [] agent = "refiner1" ->
            /\ NonEmptyList(input.previous_responses)
            /\ Truthy(input.question) /\ Truthy(input.image_path)
      [] agent \in {"refiner2", "refiner3"} ->
            NonEmptyList(input.previous_responses) /\ Truthy(input.question)
      [] agent = "retriever" ->
            /\ NonEmptyList(input.previous_responses)
            /\ \A i \in 1..Len(input.previous_responses) :
                   IsOutput(input.previous_responses[i])
            /\ Truthy(input.question)

\* The "nothing found" string each Tier-1 agent compares its text with.
Sentinel_Relations(agent) ==
    CASE agent = "ocr" -> "NO_TEXT_FOUND"
      [] agent = "relation" -> "NO_RELATIONS_FOUND"
      [] agent = "common" -> "NO_CONTENT_FOUND"
Sentinel(agent) ==
    CASE agent = "ocr" -> "NO_TEXT_FOUND"
      [] agent = "relation" -> "NO_RELATIONSHIPS_FOUND"
      [] agent = "common" -> "NO_CONTENT_FOUND"

\* `0.9 if text and text != "<sentinel>" else 0.1`
Tier1Confidence(agent, text) ==
    IF text # "" /\ text # Sentinel(agent) THEN <<9, 10>> ELSE <<1, 10>>

\* Refiner1Agent: min(0.95, base_confidence * 1.1)
Refiner1Confidence_Uncapped(confs) == RMul(Mean(confs), <<11, 10>>)
Refiner1Confidence(confs) == RMin2(<<19, 20>>, RMul(Mean(confs), <<11, 10>>))

\* Refiner2Agent: the spread max - min below 0.2 boosts, otherwise base * 0.9
Refiner2Confidence_Inclusive(confs) ==
    IF RLeq(RAdd(RMax(confs), RMul(<<-1, 1>>, RMin(confs))), <<1, 5>>)
    THEN RMin2(<<19, 20>>, RMul(Mean(confs), <<11, 10>>))
    ELSE RMul(Mean(confs), <<9, 10>>)
Refiner2Confidence(confs) ==
    IF RLt(RAdd(RMax(confs), RMul(<<-1, 1>>, RMin(confs))), <<1, 5>>)
    THEN RMin2(<<19, 20>>, RMul(Mean(confs), <<11, 10>>))
    ELSE RMul(Mean(confs), <<9, 10>>)

\* Refiner3Agent: a smallest input above 0.7 boosts, otherwise base * 0.9
Refiner3Confidence_Cap98(confs) ==
    IF RGt(RMin(confs), <<7, 10>>)
    THEN RMin2(<<49, 50>>, RMul(Mean(confs), <<11, 10>>))
    ELSE RMul(Mean(confs), <<9, 10>>)
Refiner3Confidence_Inclusive(confs) ==
    IF RGeq(RMin(confs), <<7, 10>>)
    THEN RMin2(<<19, 20>>, RMul(Mean(confs), <<11, 10>>))
    ELSE RMul(Mean(confs), <<9, 10>>)
Refiner3Confidence(confs) ==
    IF RGt(RMin(confs), <<7, 10>>)
    THEN RMin2(<<19, 20>>, RMul(Mean(confs), <<11, 10>>))
    ELSE RMul(Mean(confs), <<9, 10>>)

\* RetrieverAgent: sum(w * c for w, c in zip(weights, weights)) / sum(weights)
WeightedConfidence(weights) ==
    RDiv(RSum([i \in 1..Len(weights) |-> RMul(weights[i], weights[i])]),
         RSum(weights))

\* RetrieverAgent: a spread below 0.1 boosts (at most 0.98), otherwise weighted * 0.95
RetrieverConfidence_Inclusive(weights) ==
    IF RLeq(RAdd(RMax(weights), RMul(<<-1, 1>>, RMin(weights))), <<1, 10>>)
    THEN RMin2(<<49, 50>>, RMul(WeightedConfidence(weights), <<11, 10>>))
    ELSE RMul(WeightedConfidence(weights), <<19, 20>>)
RetrieverConfidence_NoBoost(weights) ==
    IF RLt(RAdd(RMax(weights), RMul(<<-1, 1>>, RMin(weights))), <<1, 10>>)
    THEN RMin2(<<49, 50>>, WeightedConfidence(weights))
    ELSE RMul(WeightedConfidence(weights), <<19, 20>>)
RetrieverConfidence_NoPenalty(weights) ==
    IF RLt(RAdd(RMax(weights), RMul(<<-1, 1>>, RMin(weights))), <<1, 10>>)
    THEN RMin2(<<49, 50>>, RMul(WeightedConfidence(weights), <<11, 10>>))
    ELSE WeightedConfidence(weights)
RetrieverConfidence(weights) ==
    IF RLt(RAdd(RMax(weights), RMul(<<-1, 1>>, RMin(weights))), <<1, 10>>)
    THEN RMin2(<<49, 50>>, RMul(WeightedConfidence(weights), <<11, 10>>))
    ELSE RMul(WeightedConfidence(weights), <<19, 20>>)

\* The texts an inference call gives back (stripped), and its failure.
InferenceError == "<inference error>"
Texts == {"", "NO_TEXT_FOUND", "no_text_found", "NO_CONTENT_FOUND",
          "NO_RELATIONSHIPS_FOUND", "NO_RELATIONS_FOUND", "Hello", "A cat"}

\* `raise ValueError("Invalid input: ...")`, the statement before the try block.
InvalidInputFailure_Wrapped(id) == [kind |-> "raised", id |-> id, error |-> "inference"]
InvalidInputFailure(id) == [kind |-> "raised", id |-> id, error |-> "invalid input"]

\* The body of agent's process on input, the inference call giving inference back:
\* the AgentOutput it returns, or the exception it raises: the ValueError of an
\* invalid input, or ("inference") the Exception its try block wraps any failure in.
ProcessBody(agent, id, input, inference) ==
    IF ~ValidateInput(agent, input)
    THEN InvalidInputFailure(id)
    ELSE IF inference = InferenceError
    THEN [kind |-> "raised", id |-> id, error |-> "inference"]
    ELSE IF Tier(agent) = 1
    THEN AgentOutput(id, inference, Tier1Confidence(agent, inference))
    ELSE IF \E i \in 1..Len(input.previous_responses) :
                ~IsOutput(input.previous_responses[i])
    \* `resp.confidence` on what is no AgentOutput: AttributeError inside the try block
    THEN [kind |-> "raised", id |-> id, error |-> "inference"]
    ELSE IF agent = "retriever" /\ RSum(ConfidencesOf(input.previous_responses)) = <<0, 1>>
    \* ZeroDivisionError inside the try block
    THEN [kind |-> "raised", id |-> id, error |-> "inference"]
    ELSE AgentOutput(id, inference,
             CASE agent = "refiner1" ->
                      Refiner1Confidence(ConfidencesOf(input.previous_responses))
               [] agent = "refiner2" ->
                      Refiner2Confidence(ConfidencesOf(input.previous_responses))
               [] agent = "refiner3" ->
                      Refiner3Confidence(ConfidencesOf(input.previous_responses))
               [] agent = "retriever" ->
                      RetrieverConfidence(ConfidencesOf(input.previous_responses)))

\* What the call expression `agent.process(input)` evaluates to where it is not
\* awaited: a coroutine for an `async def`, else what the body gives.
CallProcess(agent, id, input, inference) ==
    IF IsAsyncProcess(agent)
    THEN Coroutine(id)
    ELSE ProcessBody(agent, id, input, inference)

----------------------------------------------------------------------------
(* run_pipeline: run_pipeline.py *)

\* The order of the process calls in run_pipeline's body.
PipelineOrder_Tier2Early ==
    <<"ocr", "refiner1", "relation", "common", "refiner2", "refiner3", "retriever">>
PipelineOrder ==
    <<"ocr", "relation", "common", "refiner1", "refiner2", "refiner3", "retriever">>

\* The arguments a caller passes to run_pipeline.
ImageArgs == {"", "a.png", "b.png", "c.png"}
QuestionArgs == {None, "", "q"}

\* `if question is None: question = "What can you see in this image?"`
DefaultQuestion == "What can you see in this image?"
EffectiveQuestion(question) == IF question = None THEN DefaultQuestion ELSE question

Unset == [kind |-> "unset"]

\* level1_outputs = [ocr_output, relation_output, common_output]
Level1Outputs(outputs) == <<outputs["ocr"], outputs["relation"], outputs["common"]>>
\* refiner_outputs = [refiner1_output, refiner2_output, refiner3_output]
RefinerOutputs(outputs) ==
    <<outputs["refiner1"], outputs["refiner2"], outputs["refiner3"]>>

\* The AgentInput run_pipeline builds for agent from its locals.
InputFor(agent, image_path, question, outputs) ==
    CASE Tier(agent) = 1 -> AgentInput(image_path, question, NoList)
      [] Tier(agent) = 2 -> AgentInput(image_path, question, Level1Outputs(outputs))
      [] Tier(agent) = 3 -> AgentInput(image_path, question, RefinerOutputs(outputs))

\* `except Exception as e: logger.error(...); raise`: where the handler leaves
\* run_pipeline.
AfterException_Swallow == "running"
AfterException == "raised"

PLInit ==
    /\ pl_pc = "idle" /\ pl_step = 0
    /\ pl_image_path = None /\ pl_question = None /\ pl_arg_question = None
    /\ pl_invoked = <<>>
    /\ pl_outputs = [a \in PipelineAgents |-> Unset]
    /\ pl_error = "none" /\ pl_failed = None /\ pl_final = Unset

\* A call of run_pipeline(image_path, question), through the construction of the
\* model handle and of the seven agents (setup_ok: whether all constructors succeed).
RunPipeline(image_path, question, setup_ok) ==
    /\ pl_pc \in {"idle", "returned", "raised"}
    /\ pl_image_path' = image_path
    /\ pl_arg_question' = question
    /\ pl_question' = EffectiveQuestion(question)
    /\ pl_invoked' = <<>>
    /\ pl_outputs' = [a \in PipelineAgents |-> Unset]
    /\ pl_failed' = None /\ pl_final' = Unset
    /\ IF setup_ok
       THEN pl_pc' = "running" /\ pl_step' = 1 /\ pl_error' = "none"
       ELSE pl_pc' = AfterException /\ pl_step' = 1 /\ pl_error' = "setup"
    /\ UNCHANGED <<cmVars, agVars, frames, mvVars>>

\* The next `x_output = agent.process(input)` line with the logger.info line that
\* formats x_output.confidence, and after the last one `return final_output`.
ProcessAgent ==
    /\ pl_pc = "running" /\ pl_step \in 1..Len(PipelineOrder)
    /\ LET agent == PipelineOrder[pl_step]
           input == InputFor(agent, pl_image_path, pl_question, pl_outputs)
       IN \E inference \in Texts \cup {InferenceError} :
           LET value == CallProcess(agent, <<agent, pl_step>>, input, inference)
           IN /\ pl_invoked' = Append(pl_invoked, [agent |-> agent, input |-> input])
              /\ IF value.kind = "raised"
                 THEN /\ pl_pc' = AfterException
                      /\ pl_error' = value.error /\ pl_failed' = agent
                      /\ UNCHANGED <<pl_outputs, pl_final>>
                 ELSE IF value.kind = "coroutine"
                 \* `{x_output.confidence:.2f}` on a coroutine: AttributeError
                 THEN /\ pl_pc' = AfterException
                      /\ pl_error' = "attribute" /\ pl_failed' = agent
                      /\ pl_outputs' = [pl_outputs EXCEPT ![agent] = value]
                      /\ UNCHANGED pl_final
                 ELSE /\ pl_outputs' = [pl_outputs EXCEPT ![agent] = value]
                      /\ UNCHANGED <<pl_error, pl_failed>>
                      /\ IF pl_step = Len(PipelineOrder)
                         THEN pl_pc' = "returned" /\ pl_final' = value
                         ELSE pl_pc' = "running" /\ UNCHANGED pl_final
              /\ pl_step' = pl_step + 1
    /\ UNCHANGED <<pl_image_path, pl_question, pl_arg_question, cmVars, agVars, frames, mvVars>>

----------------------------------------------------------------------------
(* An agent's process, awaited: the body runs to its return or its exception *)

\* The confidences of the upstream outputs a caller puts in previous_responses;
\* AgentOutput.confidence is an unchecked float, so values outside [0,1] too.
UpstreamConfidences ==
    {<<0, 1>>, <<1, 10>>, <<1, 2>>, <<3, 5>>, <<7, 10>>, <<3, 4>>, <<4, 5>>,
     <<17, 20>>, <<9, 10>>, <<1, 1>>}
OutOfRangeConfidences == {<<-1, 2>>, <<2, 1>>}
MaxUpstream == 3

ConfidenceVectors ==
    UNION {[1..n -> UpstreamConfidences \cup OutOfRangeConfidences] : n \in 1..MaxUpstream}

\* previous_responses: a list of AgentOutput with these confidences.
Upstream(confs) ==
    [i \in 1..Len(confs) |-> AgentOutput(<<"upstream", i>>, "text", confs[i])]

\* A list element that is no AgentOutput (a str).
NotAnOutput == [kind |-> "str", value |-> "not an AgentOutput"]

\* The inputs a caller passes to agent's process.
AgentCallInputs(agent) ==
    IF Tier(agent) = 1
    THEN {AgentInput(i, q, NoList) : i \in {"", "a.png"}, q \in {None, "q"}}
    ELSE {AgentInput(i, q, p) : i \in {"", "a.png"}, q \in {None, "", "q"},
                                p \in {NoList, <<>>, Upstream(<<<<9, 10>>>>)}}
         \cup {AgentInput("a.png", "q", Upstream(c)) : c \in ConfidenceVectors}
         \cup {AgentInput("a.png", "q", p) :
                  p \in {<<NotAnOutput>>, Append(Upstream(<<<<9, 10>>>>), NotAnOutput)}}

\* What the inference call gives back: a text as leading white space, core,
\* trailing white space.
Paddings == {"", " "}
RawTexts == {[lead |-> l, core |-> t, trail |-> r] :
                l \in Paddings, t \in Texts, r \in Paddings}

\* str.strip()
Strip(raw) == raw.core
\* The text each agent keeps of the inference result: Refiner1Agent as returned,
\* every other agent stripped.
CleanedText(agent, raw) ==
    IF agent = "refiner1" THEN raw.lead \o raw.core \o raw.trail ELSE Strip(raw)

\* The raw texts the inference call of agent's process may give back.
InferenceTexts(agent) ==
    IF Tier(agent) = 1 THEN RawTexts
    ELSE {[lead |-> "", core |-> "Hello", trail |-> ""],
          [lead |-> " ", core |-> "A cat", trail |-> " "]}

NoMetadata == [kind |-> "none"]

\* The confidence figures each aggregating agent puts in its output's metadata.
AggregationMetadata(agent, confs) ==
    CASE agent = "refiner1" -> [base_confidence |-> Mean(confs)]
      [] agent = "refiner2" ->
            [base_confidence |-> Mean(confs),
             confidence_variance |-> RAdd(RMax(confs), RMul(<<-1, 1>>, RMin(confs)))]
      [] agent = "refiner3" ->
            [base_confidence |-> Mean(confs), min_input_confidence |-> RMin(confs)]
      [] agent = "retriever" ->
            [weighted_confidence |-> WeightedConfidence(confs),
             confidence_variance |-> RAdd(RMax(confs), RMul(<<-1, 1>>, RMin(confs)))]

NoMessage == [prefix |-> "", detail |-> ""]

\* `raise ValueError("Invalid input: requires ...")`: the message, as the text before
\* its first ": " and the text after it.
InvalidInputMessage(agent) ==
    [prefix |-> "Invalid input",
     detail |-> CASE Tier(agent) = 1 -> "requires image_path"
                  [] agent = "refiner1" -> "requires previous_responses"
                  [] agent \in {"refiner2", "refiner3"} ->
                        "requires previous_responses and a question"
                  [] agent = "retriever" ->
                        "requires previous_responses from refiners and a question"]

\* `raise Exception(f"... failed: {str(e)}")`: what each agent's handler puts
\* before the message of the exception it caught.
WrapPrefix(agent) ==
    CASE agent = "ocr" -> "OCR processing failed"
      [] agent = "relation" -> "Relationship analysis failed"
      [] agent = "common" -> "Content analysis failed"
      [] agent = "refiner1" -> "Refinement process failed"
      [] agent = "refiner2" -> "Synthesis process failed"
      [] agent = "refiner3" -> "Enhancement process failed"
      [] agent = "retriever" -> "Answer generation failed"

\* str(e) of the exception the try block caught.
CaughtMessage(agent, input, inference) ==
    IF Tier(agent) # 1 /\ \E i \in 1..Len(input.previous_responses) :
                              ~IsOutput(input.previous_responses[i])
    THEN "object has no attribute 'confidence'"
    ELSE IF inference = InferenceError
    THEN "API Error"
    ELSE "float division by zero"

\* The message of the exception agent's process raises on input.
ExceptionMessage(agent, input, inference) ==
    IF ~ValidateInput(agent, input)
    THEN InvalidInputMessage(agent)
    ELSE [prefix |-> WrapPrefix(agent),
          detail |-> CaughtMessage(agent, input, inference)]

AGInit ==
    /\ ag_pc = "idle" /\ ag_agent = None /\ ag_input = NoFrame
    /\ ag_entered_try = FALSE
    /\ ag_output = Unset /\ ag_metadata = NoMetadata /\ ag_error = "none"
    /\ ag_message = NoMessage /\ ag_valid = "not called"

\* A caller holds an agent and an input and calls agent.process(input_data).
AGCalled ==
    /\ ag_pc = "called"
    /\ ag_agent \in PipelineAgents
    /\ ag_input \in AgentCallInputs(ag_agent)
    /\ ag_entered_try = FALSE
    /\ ag_output = Unset /\ ag_metadata = NoMetadata /\ ag_error = "none"
    /\ ag_message = NoMessage /\ ag_valid = "not called"

\* agent.process(input_data), awaited where process is an `async def`; the
\* inference call inside its try block fails or gives raw back.
AwaitProcess(failed, raw) ==
    LET agent == ag_agent
        input_data == ag_input
        text == IF failed THEN InferenceError ELSE CleanedText(agent, raw)
        value == ProcessBody(agent, <<agent, 0>>, input_data, text)
    IN /\ ag_pc = "called"
       /\ UNCHANGED <<ag_agent, ag_input>>
       /\ ag_valid' = IF ValidateInput(agent, input_data) THEN "True" ELSE "False"
       /\ IF IsOutput(value)
          THEN /\ ag_pc' = "returned"
               /\ ag_entered_try' = TRUE
               /\ ag_output' = value
               /\ ag_metadata' =
                    IF Tier(agent) = 1 THEN NoMetadata
                    ELSE AggregationMetadata(agent,
                             ConfidencesOf(input_data.previous_responses))
               /\ ag_error' = "none"
               /\ ag_message' = NoMessage
          ELSE /\ ag_pc' = "raised"
               /\ ag_entered_try' = (value.error # "invalid input")
               /\ ag_output' = Unset
               /\ ag_metadata' = NoMetadata
               /\ ag_error' = value.error
               /\ ag_message' = ExceptionMessage(agent, input_data, text)
       /\ UNCHANGED <<cmVars, plVars, frames, mvVars>>

----------------------------------------------------------------------------
(* run_mmvet_v2_test: run_mmvet_v2_test.py *)

\* The question ids of the dataset file, and the orders they come in.
Qids == {"v2_0", "v2_1", "v2_2"}
Datasets == {<<"v2_0", "v2_1", "v2_2">>, <<"v2_2", "v2_0", "v2_1">>}
\* The answers a pipeline run returns (output.result).
Answers == {"A cat", "Hello"}
\* The runs of run_mmvet_v2_test a behaviour holds at most.
MaxRuns == 3

\* `if qid in results`
AlreadyProcessed_Never(qid, results) == FALSE
AlreadyProcessed(qid, results) == results[qid] # None

\* `results[qid] = ""` in the exception handler
FailedEntry == ""

\* load_existing_results(output_file): {} where the file does not exist
NoResults == [q \in Qids |-> None]

\* No run yet, no results file.
MVIdle ==
    /\ mv_pc = "idle"
    /\ mv_dataset = <<"v2_0", "v2_1", "v2_2">> /\ mv_malformed = {}
    /\ mv_file = NoResults /\ mv_results = NoResults
    /\ mv_pos = 0 /\ mv_runs = 0
    /\ mv_calls = [q \in Qids |-> 0] /\ mv_stores = [q \in Qids |-> 0]
    /\ mv_raised = {}

\* The same, over any of the datasets.
MVInit ==
    /\ mv_pc = "idle"
    /\ mv_dataset \in Datasets
    /\ mv_malformed \in {{}, {"v2_1"}}
    /\ mv_file = NoResults /\ mv_results = NoResults
    /\ mv_pos = 0 /\ mv_runs = 0
    /\ mv_calls = [q \in Qids |-> 0] /\ mv_stores = [q \in Qids |-> 0]
    /\ mv_raised = {}

\* run_mmvet_v2_test(dataset_path, image_dir) is called: the dataset and the
\* existing results are loaded, the loop starts.
RunMMVet ==
    /\ mv_pc \in {"idle", "returned", "raised"}
    /\ mv_runs < MaxRuns
    /\ mv_runs' = mv_runs + 1
    /\ mv_results' = mv_file
    /\ mv_pos' = 1
    /\ mv_pc' = "loop"
    /\ UNCHANGED <<mv_dataset, mv_malformed, mv_file, mv_calls, mv_stores, mv_raised>>
    /\ UNCHANGED <<cmVars, plVars, agVars, frames>>

\* One pass of the loop up to the call of run_pipeline, or the end of the run.
NextQuestion ==
    /\ mv_pc = "loop"
    /\ IF mv_pos > Len(mv_dataset)
       THEN /\ mv_pc' = "returned"
            /\ UNCHANGED <<mv_pos, mv_calls>>
       ELSE LET qid == mv_dataset[mv_pos]
            IN IF AlreadyProcessed(qid, mv_results)
               THEN /\ mv_pos' = mv_pos + 1
                    /\ UNCHANGED <<mv_pc, mv_calls>>
               ELSE IF qid \in mv_malformed
               \* `question.split("<IMG>")[1]`: IndexError, outside the try block
               THEN /\ mv_pc' = "raised"
                    /\ UNCHANGED <<mv_pos, mv_calls>>
               ELSE /\ mv_pc' = "pipeline"
                    /\ mv_calls' = [mv_calls EXCEPT ![qid] = @ + 1]
                    /\ UNCHANGED mv_pos
    /\ UNCHANGED <<mv_dataset, mv_malformed, mv_file, mv_results, mv_runs, mv_stores,
                   mv_raised>>
    /\ UNCHANGED <<cmVars, plVars, agVars, frames>>

\* run_pipeline(image_path, question) comes back: with an output whose result is
\* stored, or with an exception, for which the handler stores the empty string;
\* either way the results file is written anew.
PipelineComesBack(raised, answer) ==
    LET qid == mv_dataset[mv_pos]
        entry == IF raised THEN FailedEntry ELSE answer
    IN /\ mv_pc = "pipeline"
       /\ mv_results' = [mv_results EXCEPT ![qid] = entry]
       /\ mv_file' = mv_results'
       /\ mv_stores' = [mv_stores EXCEPT ![qid] = @ + 1]
       /\ mv_raised' = IF raised THEN mv_raised \cup {qid} ELSE mv_raised
       /\ mv_pos' = mv_pos + 1
       /\ mv_pc' = "loop"
       /\ UNCHANGED <<mv_dataset, mv_malformed, mv_runs, mv_calls>>
       /\ UNCHANGED <<cmVars, plVars, agVars, frames>>

----------------------------------------------------------------------------
(* Specifications *)

Init == CMInit /\ PLInit /\ AGInit /\ ConcurrentInit /\ MVIdle

CMNext ==
    \/ \E n \in AgentNames, k \in ProcessKinds : RegisterAgent(n, k)
    \/ \E n \in AgentNames, i \in CallerInputs, r \in CallerResults :
           RequestCollaboration(n, i, r)
    \/ \E n \in AgentNames, i \in CallerInputs, r \in CallerResults :
           CrossValidate(r, i, n)
    \/ VerificationReturns
    \/ DetailedOcrReturns
    \/ RetryReturns
    \/ ValidationReturns

PLNext ==
    \/ \E i \in ImageArgs, q \in QuestionArgs, ok \in BOOLEAN : RunPipeline(i, q, ok)
    \/ ProcessAgent

\* The Collaboration Manager with its callers and registered agents.
Spec == Init /\ [][CMNext]_vars

\* The same, every invoked agent's process coming back (no inference call hangs).
SpecAgentsReturn ==
    /\ Spec
    /\ WF_vars(VerificationReturns) /\ WF_vars(DetailedOcrReturns)
    /\ WF_vars(RetryReturns) /\ WF_vars(ValidationReturns)

\* run_pipeline with its callers.
SpecPipeline == Init /\ [][PLNext]_vars

ConcurrentNext ==
    \/ \E n \in AgentNames, k \in ProcessKinds : SetupRegisterAgent(n, k)
    \/ \E c \in Callers, n \in AgentNames, i \in ConcurrentInputs :
           \E r \in ConcurrentResults(c) : ConcurrentRequestCollaboration(c, n, i, r)
    \/ \E c \in Callers, n \in AgentNames, i \in ConcurrentInputs :
           \E r \in ConcurrentResults(c) : ConcurrentCrossValidate(c, r, i, n)
    \/ \E c \in Callers : ConcurrentProcessReturns(c)

\* The Collaboration Manager with two agents calling it at the same time.
SpecConcurrent == Init /\ [][ConcurrentNext]_vars

MVNext ==
    \/ RunMMVet
    \/ NextQuestion
    \/ \E raised \in BOOLEAN, answer \in Answers : PipelineComesBack(raised, answer)

\* run_mmvet_v2_test, run again and again over one dataset and one results file.
InitMMVet == CMInit /\ PLInit /\ AGInit /\ ConcurrentInit /\ MVInit
SpecMMVet == InitMMVet /\ [][MVNext]_vars

AGNext ==
    \E failed \in BOOLEAN, raw \in InferenceTexts(ag_agent) : AwaitProcess(failed, raw)

\* One call of an agent's process, for every agent and every input of a caller.
InitAgents == CMInit /\ PLInit /\ AGCalled /\ ConcurrentInit /\ MVIdle
SpecAgents == InitAgents /\ [][AGNext]_vars

----------------------------------------------------------------------------
(* Properties of the Collaboration Manager *)

Threshold == <<7, 10>>
Half == <<1, 2>>

InRequestCollaboration == cm_op = "request_collaboration"
InCrossValidate == cm_op = "cross_validate"
BelowThreshold == RLt(cm_current.confidence, Threshold)
CMEnded == cm_pc \in {"returned", "raised"}

\* C1 as stated: whatever request_collaboration or cross_validate returns has a
\* confidence at least that of the current/primary result passed in.
C1_NeverWorse ==
    (cm_pc = "returned" /\ IsOutput(cm_ret))
        => RGeq(cm_ret.confidence, cm_current.confidence)

\* C1 amended: every call that returns without a second role-B invocation (all of
\* cross_validate; request_collaboration's fast path, role-A branch, pass-through,
\* and role-B branch without the retry) returns a result whose confidence is at
\* least that of the result passed in. The retry's result is returned uncompared.
C1_NeverWorseWithoutRetry ==
    (cm_pc = "returned" /\ Len(cm_calls) < 2)
        => /\ IsOutput(cm_ret)
           /\ RGeq(cm_ret.confidence, cm_current.confidence)

\* A call that substituted the invoked agent's result for the one passed in.
C1_Witness ==
    /\ cm_pc = "returned" /\ Len(cm_calls) = 1
    /\ cm_ret # cm_current
    /\ RGt(cm_ret.confidence, cm_current.confidence)

\* C2: request_collaboration with current_result.confidence >= 0.7 (0.7 included)
\* returns the current_result it was given and invokes no agent, whoever asks and
\* whatever is registered.
C2_FastPath ==
    (InRequestCollaboration /\ RGeq(cm_current.confidence, Threshold))
        => /\ cm_pc = "returned"
           /\ cm_ret = cm_current
           /\ cm_calls = <<>> /\ cm_results = <<>>

\* The boundary: confidence exactly 0.7, role A asking, role B registered.
C2_Witness ==
    /\ InRequestCollaboration /\ cm_pc = "returned"
    /\ cm_current.confidence = Threshold
    /\ cm_requester = "ocr" /\ agents["common"] # None

\* C3: below 0.7, request_collaboration for "ocr" invokes "common" exactly once, on
\* the same image with previous_responses = [current_result]; it returns that
\* output only when its confidence is strictly greater, and the original when it is
\* lower or equal or when "common" is not registered.
C3_RoleA ==
    (InRequestCollaboration /\ cm_requester = "ocr" /\ BelowThreshold)
        => /\ agents["common"] = None
                => /\ cm_calls = <<>>
                   /\ cm_pc = "returned" /\ cm_ret = cm_current
           /\ agents["common"] # None
                => /\ Len(cm_calls) = 1
                   /\ cm_calls[1].agent = "common"
                   /\ cm_calls[1].input.image_path = cm_input.image_path
                   /\ cm_calls[1].input.previous_responses = <<cm_current>>
           /\ (Len(cm_results) = 1 /\ IsOutput(cm_results[1]))
                => /\ cm_pc = "returned"
                   /\ cm_ret = IF RGt(cm_results[1].confidence, cm_current.confidence)
                               THEN cm_results[1] ELSE cm_current
           /\ cm_pc = "returned" => cm_ret = cm_current \/ cm_ret = cm_results[1]

\* Role B answered with the same confidence and the original was kept.
C3_Witness ==
    /\ InRequestCollaboration /\ cm_requester = "ocr" /\ BelowThreshold
    /\ cm_pc = "returned" /\ Len(cm_results) = 1 /\ IsOutput(cm_results[1])
    /\ cm_results[1].confidence = cm_current.confidence
    /\ cm_ret = cm_current

\* C4: below 0.7, request_collaboration for "common" first invokes "ocr" with
\* previous_responses = [current_result]; if that confidence exceeds 0.5 it invokes
\* "common" with previous_responses = [ocr's output, current_result] and the
\* original question and returns that result; if it is 0.5 or less, or "ocr" is not
\* registered, "common" is not invoked and current_result is returned.
C4_RoleB ==
    (InRequestCollaboration /\ cm_requester = "common" /\ BelowThreshold)
        => /\ agents["ocr"] # None
                => /\ Len(cm_calls) >= 1
                   /\ cm_calls[1].agent = "ocr"
                   /\ cm_calls[1].input.previous_responses = <<cm_current>>
           /\ (Len(cm_results) >= 1 /\ IsOutput(cm_results[1])
               /\ RGt(cm_results[1].confidence, Half))
                => /\ Len(cm_calls) = 2
                   /\ cm_calls[2] =
                        [agent |-> "common",
                         input |-> AgentInput(cm_input.image_path, cm_input.question,
                                              <<cm_results[1], cm_current>>)]
                   /\ cm_pc = "returned"
                        => IsOutput(cm_ret) /\ cm_ret = cm_results[2]
           /\ (agents["ocr"] = None
               \/ (Len(cm_results) >= 1 /\ IsOutput(cm_results[1])
                   /\ RLeq(cm_results[1].confidence, Half)))
                => /\ \A i \in 1..Len(cm_calls) : cm_calls[i].agent # "common"
                   /\ cm_pc = "returned" /\ cm_ret = cm_current

\* The retry happened and its result was returned.
C4_Witness ==
    /\ InRequestCollaboration /\ cm_requester = "common" /\ BelowThreshold
    /\ cm_pc = "returned" /\ Len(cm_results) = 2
    /\ IsOutput(cm_ret) /\ cm_ret = cm_results[2]

\* The other of the two roles.
OtherRole(name) == IF name = "ocr" THEN "common" ELSE "ocr"

\* C5: cross_validate returns the validator's output exactly when the primary is
\* below 0.7, a validator (the other role, never the primary agent itself) is
\* registered and its confidence is strictly greater; when the primary is at 0.7 or
\* more, no validator is registered, or its confidence is lower or equal, it
\* returns primary_result and raises nothing.
C5_CrossValidate ==
    InCrossValidate
        => /\ Len(cm_calls) <= 1
           /\ \A i \in 1..Len(cm_calls) :
                /\ cm_calls[i].agent = OtherRole(cm_requester)
                /\ cm_calls[i].agent # cm_requester
                /\ cm_calls[i].input =
                     AgentInput(cm_input.image_path, cm_input.question, <<cm_current>>)
           /\ cm_pc = "returned"
                => cm_ret = IF /\ BelowThreshold
                               /\ agents[OtherRole(cm_requester)] # None
                               /\ Len(cm_results) = 1 /\ IsOutput(cm_results[1])
                               /\ RGt(cm_results[1].confidence, cm_current.confidence)
                            THEN cm_results[1] ELSE cm_current
           /\ (\/ ~BelowThreshold
               \/ agents[OtherRole(cm_requester)] = None
               \/ (Len(cm_results) = 1 /\ IsOutput(cm_results[1])
                   /\ RLeq(cm_results[1].confidence, cm_current.confidence)))
                => cm_pc = "returned" /\ cm_ret = cm_current

\* The validator's better output was returned.
C5_Witness ==
    /\ InCrossValidate /\ cm_pc = "returned"
    /\ Len(cm_results) = 1 /\ cm_ret = cm_results[1]
    /\ RGt(cm_ret.confidence, cm_current.confidence)

\* The most agent invocations one call of the running operation makes.
MaxInvocations ==
    IF InCrossValidate THEN 1
    ELSE IF cm_requester = "ocr" THEN 1
    ELSE IF cm_requester = "common" THEN 2
    ELSE 0

\* C6: one cross_validate call invokes at most one agent, one request_collaboration
\* call at most one (role-A branch) or two (role-B branch); no invoked agent enters
\* the manager again; and every call ends once the agents it invoked come back.
C6_SingleHop ==
    /\ [](/\ Len(cm_calls) <= MaxInvocations
          /\ cm_entries <= 1)
    /\ (~CMCallable ~> CMEnded)

\* A role-B call that used both hops and still ended below the threshold.
C6_Witness ==
    /\ InRequestCollaboration /\ cm_requester = "common"
    /\ cm_pc = "returned" /\ Len(cm_calls) = 2 /\ cm_entries = 1
    /\ IsOutput(cm_ret) /\ RLt(cm_ret.confidence, Threshold)

\* C22: request_collaboration for a requesting agent that is neither "ocr" nor
\* "common" returns current_result unchanged and invokes no agent, for every
\* confidence and whatever is registered.
C22_PassThrough ==
    (InRequestCollaboration /\ cm_requester \notin {"ocr", "common"})
        => /\ cm_pc = "returned"
           /\ cm_ret = cm_current
           /\ cm_calls = <<>> /\ cm_results = <<>>

\* A third agent asked with a low confidence while both roles were registered.
C22_Witness ==
    /\ InRequestCollaboration /\ cm_requester = "relation" /\ cm_pc = "returned"
    /\ BelowThreshold
    /\ agents["ocr"] # None /\ agents["common"] # None

\* What the call of frame f returns when it runs alone: from its own arguments, the
\* registry and what the agents it invoked gave back.
SequentialReturn(f) ==
    LET helper == IF f.op = "cross_validate"
                  THEN (IF f.requester = "ocr" THEN "common" ELSE "ocr")
                  ELSE IF f.requester = "ocr" THEN "common"
                  ELSE IF f.requester = "common" THEN "ocr"
                  ELSE None
    IN IF RGeq(f.current.confidence, Threshold) THEN f.current
       ELSE IF helper = None THEN f.current
       ELSE IF agents[helper] = None THEN f.current
       ELSE IF f.op = "request_collaboration" /\ f.requester = "common"
       THEN IF RGt(f.results[1].confidence, Half) THEN f.results[2] ELSE f.current
       ELSE IF RGt(f.results[1].confidence, f.current.confidence)
       THEN f.results[1] ELSE f.current

\* C23: request_collaboration and cross_validate leave the registry, the threshold
\* and the round limit as they were, and leave the input and the current/primary
\* result they were passed as they were; a step of one caller's call leaves the
\* other caller's call alone, and every call that returns, however the two callers'
\* calls interleave, returns what it returns when run alone.
C23_CallsAreIndependent ==
    /\ [](\A c \in Callers :
            frames[c].pc = "returned" => frames[c].ret = SequentialReturn(frames[c]))
    /\ [][\A c \in Callers :
            (frames'[c] # frames[c] /\ frames'[c].pc # "idle")
                => /\ UNCHANGED CMState
                   /\ \A d \in Callers \ {c} : frames'[d] = frames[d]
                   /\ CallPending(frames[c])
                        => /\ frames'[c].input = frames[c].input
                           /\ frames'[c].current = frames[c].current]_vars
C23_Witness ==
    /\ frames[1].pc = "retry" /\ frames[2].pc = "verify"
    /\ frames[1].current.confidence # frames[2].current.confidence
    /\ IsOutput(frames[1].results[1])

----------------------------------------------------------------------------
(* Properties of run_pipeline *)

\* The agents of tier t.
TierAgents(t) == {a \in PipelineAgents : Tier(a) = t}

\* agent's process call was made before the i-th call and gave a value back.
ReturnedBefore(agent, i) ==
    /\ \E j \in 1..(i - 1) : pl_invoked[j].agent = agent
    /\ pl_outputs[agent] # Unset

C9_FailureAborts ==
    pl_error \in {"invalid input", "inference"}
        => /\ pl_pc = "raised"
           /\ pl_final = Unset
           /\ pl_invoked # <<>>
           /\ pl_invoked[Len(pl_invoked)].agent = pl_failed
           /\ Cardinality({i \in 1..Len(pl_invoked) : pl_invoked[i].agent = pl_failed}) = 1
           /\ pl_outputs[pl_failed] = Unset

\* The text-extraction agent's inference failed on a valid input.
C9_Witness ==
    /\ pl_pc = "raised" /\ pl_error = "inference" /\ pl_failed = "ocr"
    /\ Truthy(pl_image_path)

\* C10: with a valid input and no failed inference call, a finished run_pipeline
\* invocation has run all seven agents and returned one AgentOutput, the Tier-3
\* retriever's.
C10_ReturnsFinalOutput ==
    (/\ pl_pc \in {"returned", "raised"}
     /\ Truthy(pl_image_path) /\ Truthy(pl_question)
     /\ pl_error \notin {"setup", "inference"})
        => /\ pl_pc = "returned"
           /\ IsOutput(pl_final)
           /\ pl_final = pl_outputs["retriever"]
           /\ [i \in 1..Len(pl_invoked) |-> pl_invoked[i].agent] = PipelineOrder

----------------------------------------------------------------------------
(* Properties of the agents' process *)

Zero == <<0, 1>>
One == <<1, 1>>
InUnit(c) == RGeq(c, Zero) /\ RLeq(c, One)

Aggregators == {"refiner1", "refiner2", "refiner3", "retriever"}
\* An aggregating agent's process returned an output.
Aggregated == ag_pc = "returned" /\ ag_agent \in Aggregators
\* The upstream confidences of the call, in order.
UpstreamOfCall == ConfidencesOf(ag_input.previous_responses)
UpstreamIn(lo, hi, loStrict) ==
    \A i \in 1..Len(UpstreamOfCall) :
        /\ IF loStrict THEN RGt(UpstreamOfCall[i], lo) ELSE RGeq(UpstreamOfCall[i], lo)
        /\ RLeq(UpstreamOfCall[i], hi)

\* C11: for upstream confidences all in [0,1], the confidence each of the four
\* aggregating agents (Refiner 1, 2, 3, Retriever) produces lies in [0,1].
C11_AggregatedInUnit ==
    (Aggregated /\ UpstreamIn(Zero, One, FALSE)) => InUnit(ag_output.confidence)

\* The Retriever at its cap: three upstream confidences of 1 give 0.98.
C11_Witness ==
    /\ Aggregated /\ ag_agent = "retriever"
    /\ UpstreamOfCall = <<One, One, One>>
    /\ ag_output.confidence = <<49, 50>>

\* C12: whatever the upstream confidences, values outside [0,1] included, the
\* confidence each of the four aggregating agents returns lies in [0,1].
C12_AlwaysClamped ==
    Aggregated => InUnit(ag_output.confidence)

\* The figures the formulas are stated in: mean, spread and smallest of the
\* upstream confidences of the call, and the boosted and the penalised value.
MeanOfCall == RDiv(RSum(UpstreamOfCall), <<Len(UpstreamOfCall), 1>>)
LargestOfCall ==
    CHOOSE c \in {UpstreamOfCall[i] : i \in 1..Len(UpstreamOfCall)} :
        \A i \in 1..Len(UpstreamOfCall) : RGeq(c, UpstreamOfCall[i])
SmallestOfCall ==
    CHOOSE c \in {UpstreamOfCall[i] : i \in 1..Len(UpstreamOfCall)} :
        \A i \in 1..Len(UpstreamOfCall) : RLeq(c, UpstreamOfCall[i])
SpreadOfCall == RAdd(LargestOfCall, RMul(<<-1, 1>>, SmallestOfCall))
Capped(cap, value) == IF RLt(value, cap) THEN value ELSE cap
BoostedMean == Capped(<<19, 20>>, RMul(MeanOfCall, <<11, 10>>))
PenalisedMean == RMul(MeanOfCall, <<9, 10>>)
Returned(agent) == ag_pc = "returned" /\ ag_agent = agent

\* C13: Refiner 1's confidence is min(0.95, mean * 1.1) for every non-empty
\* upstream sequence, its metadata base_confidence is that mean, the confidence is
\* above 0 and at most 0.95 for upstream confidences in (0,1], and [0.8, 0.6, 0.9]
\* gives 0.8433 (to four places).
C13_Refiner1Formula ==
    Returned("refiner1")
        => /\ ag_output.confidence = BoostedMean
           /\ ag_metadata.base_confidence = MeanOfCall
           /\ UpstreamIn(Zero, One, TRUE)
                => /\ RGt(ag_output.confidence, Zero)
                   /\ RLeq(ag_output.confidence, <<19, 20>>)
           /\ UpstreamOfCall = <<<<4, 5>>, <<3, 5>>, <<9, 10>>>>
                => /\ RGeq(ag_output.confidence, <<8433, 10000>>)
                   /\ RLt(ag_output.confidence, <<8434, 10000>>)

\* The example of the claim.
C13_Witness ==
    /\ Returned("refiner1")
    /\ UpstreamOfCall = <<<<4, 5>>, <<3, 5>>, <<9, 10>>>>
    /\ ag_output.confidence = <<253, 300>>

SelfWeightedOfCall ==
    RDiv(RSum([i \in 1..Len(UpstreamOfCall) |->
                   RMul(UpstreamOfCall[i], UpstreamOfCall[i])]),
         RSum(UpstreamOfCall))

ConsistentCall == UpstreamIn(Zero, One, FALSE) /\ RLt(SpreadOfCall, <<1, 10>>)
InconsistentCall == UpstreamIn(Zero, One, FALSE) /\ RGeq(SpreadOfCall, <<1, 10>>)

\* C17 as stated: for upstream confidences in [0,1] with a spread below 0.1 the
\* Retriever's final confidence exceeds the arithmetic mean of the upstream
\* confidences.
C17_ConsistentExceedsMean ==
    (Returned("retriever") /\ ConsistentCall)
        => RGt(ag_output.confidence, MeanOfCall)

\* C17 amended: for upstream confidences in [0,1] with a spread below 0.1 on
\* which the Retriever returns, the final confidence exceeds the arithmetic mean
\* exactly when that mean is below the cap 0.98; from a mean of 0.98 on the final
\* confidence is 0.98 and does not exceed the mean.
C17_ConsistentExceedsMeanBelowCap ==
    (Returned("retriever") /\ ConsistentCall)
        => /\ RGt(ag_output.confidence, MeanOfCall) <=> RLt(MeanOfCall, <<49, 50>>)
           /\ RGeq(MeanOfCall, <<49, 50>>) => ag_output.confidence = <<49, 50>>

\* Consistent inputs below the cap: [0.9, 0.85, 0.9] is amplified above its mean.
C17_Witness ==
    /\ Returned("retriever") /\ ConsistentCall
    /\ UpstreamOfCall = <<<<9, 10>>, <<17, 20>>, <<9, 10>>>>
    /\ RGt(ag_output.confidence, MeanOfCall)

Tier1Returned == ag_pc = "returned" /\ ag_agent \in {"ocr", "relation", "common"}
Low == <<1, 10>>
High == <<9, 10>>

\* C19 as stated: a Tier-1 agent's confidence is 0.1 when its text equals its
\* sentinel (text extraction NO_TEXT_FOUND, general understanding
\* NO_CONTENT_FOUND, relation NO_RELATIONS_FOUND), compared verbatim, 0.9 for a
\* substantive text (not empty, not that sentinel), and never another value.
C19_BinaryPolicy ==
    Tier1Returned
        => LET sentinel == CASE ag_agent = "ocr" -> "NO_TEXT_FOUND"
                             [] ag_agent = "common" -> "NO_CONTENT_FOUND"
                             [] ag_agent = "relation" -> "NO_RELATIONS_FOUND"
           IN /\ ag_output.confidence \in {Low, High}
              /\ ag_output.result = sentinel => ag_output.confidence = Low
              /\ (ag_output.result # "" /\ ag_output.result # sentinel)
                    => ag_output.confidence = High

\* C19 amended: the relation agent's sentinel is NO_RELATIONSHIPS_FOUND. A Tier-1
\* agent's confidence is 0.1 exactly when its stripped text is empty or equals its
\* own sentinel verbatim (NO_TEXT_FOUND, NO_CONTENT_FOUND,
\* NO_RELATIONSHIPS_FOUND) and 0.9 for every other text, NO_RELATIONS_FOUND at the
\* relation agent included; no other value is produced.
C19_BinaryPolicyRelationships ==
    Tier1Returned
        => LET sentinel == CASE ag_agent = "ocr" -> "NO_TEXT_FOUND"
                             [] ag_agent = "common" -> "NO_CONTENT_FOUND"
                             [] ag_agent = "relation" -> "NO_RELATIONSHIPS_FOUND"
           IN /\ ag_output.confidence \in {Low, High}
              /\ ag_output.confidence = Low
                    <=> (ag_output.result = "" \/ ag_output.result = sentinel)
              /\ (ag_agent = "relation" /\ ag_output.result = "NO_RELATIONS_FOUND")
                    => ag_output.confidence = High

\* The relation agent got its sentinel back and reported 0.1.
C19_Witness ==
    /\ Tier1Returned /\ ag_agent = "relation"
    /\ ag_output.result = "NO_RELATIONSHIPS_FOUND"
    /\ ag_output.confidence = Low

\* C20: for every agent, process on an input that validate_input rejects raises
\* the invalid-input error, as such and not as the inference-failure error, before
\* its try block (and so before any inference call) and without an output; and
\* only such an input raises it.
C20_InvalidInputRaised ==
    ag_pc # "called"
        => /\ ~ValidateInput(ag_agent, ag_input)
                => /\ ag_pc = "raised" /\ ag_error = "invalid input"
                   /\ ~ag_entered_try
                   /\ ag_output = Unset
           /\ ag_error = "invalid input" => ~ValidateInput(ag_agent, ag_input)

\* The Retriever was called without a question.
C20_Witness ==
    /\ ag_pc = "raised" /\ ag_agent = "retriever"
    /\ ag_input.question = None /\ NonEmptyList(ag_input.previous_responses)
    /\ ag_error = "invalid input" /\ ~ag_entered_try

----------------------------------------------------------------------------
(* Properties of run_pipeline: the confidence it returns, the question it passes on *)

\* A run_pipeline invocation that is over, on a non-empty image reference, in
\* which no constructor and no inference call failed.
RunOverUnfailed ==
    /\ pl_pc \in {"returned", "raised"}
    /\ Truthy(pl_image_path)
    /\ pl_error \notin {"setup", "inference"}

\* The Tier-1 agents whose process gave an AgentOutput in this run.
Tier1Done == {a \in TierAgents(1) : IsOutput(pl_outputs[a])}

\* C21: whatever the Tier-1 outcomes (each confidence 0.1 or 0.9), the run feeds
\* them through the three refiners and the retriever and returns a final
\* confidence above 0 and at most 0.98.
C21_FinalConfidenceInRange ==
    (RunOverUnfailed /\ Truthy(pl_question)
     /\ \A a \in Tier1Done : pl_outputs[a].confidence \in {Low, High})
        => /\ IsOutput(pl_final)
           /\ RGt(pl_final.confidence, Zero)
           /\ RLeq(pl_final.confidence, <<49, 50>>)

\* C28: with every Tier-1 confidence 0.1 or 0.9, the run's final confidence is
\* exactly 0.98 when all three Tier-1 agents returned a non-sentinel result and
\* below 0.7 in every other case.
C28_FinalConfidenceByTier1 ==
    (RunOverUnfailed /\ Truthy(pl_question))
        => /\ IsOutput(pl_final)
           /\ IF \A a \in TierAgents(1) :
                    IsOutput(pl_outputs[a]) /\ pl_outputs[a].confidence = High
              THEN pl_final.confidence = <<49, 50>>
              ELSE RLt(pl_final.confidence, Threshold)

\* C29: a run on a non-empty image reference fails no input validation, whatever
\* the question argument (absent, empty, non-empty), and the question it hands to
\* the agents is always present (what the refiners and the retriever require:
\* a non-empty string).
C29_QuestionAlwaysPresent ==
    (pl_pc # "idle" /\ pl_error # "setup" /\ Truthy(pl_image_path))
        => /\ pl_error # "invalid input"
           /\ Truthy(pl_question)

----------------------------------------------------------------------------
(* Properties of the agents' process: failures, Refiner 3's range, the Retriever's
   validation and aggregation *)

CallEnded == ag_pc \in {"returned", "raised"}

\* The part of a failure message that tells one failure from another: the whole
\* text of an invalid-input message, the text before ": " of a wrapped one.
Identifying(m) ==
    IF m.prefix = "Invalid input" THEN m ELSE [prefix |-> m.prefix, detail |-> ""]
\* The failure messages agent a can give.
MessagesOf(a) ==
    {Identifying(InvalidInputMessage(a)), [prefix |-> WrapPrefix(a), detail |-> ""]}

\* C24: the message of every exception a process raises, for invalid input as for
\* a failure inside the try block, tells the failing stage: no other stage can
\* give the same message (prefix), and the Retriever's wrapped failures begin with
\* "Retrieval process failed".
C24_MessageNamesStage ==
    ag_pc = "raised"
        => /\ \A a \in PipelineAgents \ {ag_agent} :
                Identifying(ag_message) \notin MessagesOf(a)
           /\ (ag_agent = "retriever" /\ ag_error = "inference")
                => ag_message.prefix = "Retrieval process failed"

NoUpstream == ag_input.previous_responses \in {NoList, <<>>}
ForeignElement ==
    /\ ~NoUpstream
    /\ \E i \in 1..Len(ag_input.previous_responses) :
          ~IsOutput(ag_input.previous_responses[i])
RetrieverCalled == ag_agent = "retriever" /\ CallEnded

C27_AggregationNeverFails ==
    (RetrieverCalled /\ ag_valid = "True" /\ UpstreamIn(Zero, One, FALSE)
     /\ ag_message.detail # "API Error")
        => /\ ag_pc = "returned"
           /\ InUnit(ag_output.confidence)

----------------------------------------------------------------------------
(* Properties of run_mmvet_v2_test *)

\* C30: over repeated runs on one dataset and one results file, each question id is
\* given a result entry at most once and the pipeline is called for it at most
\* once; an id whose pipeline run raised is stored as the empty string; an entry
\* once in the file never changes; and the pipeline is never called for an id the
\* run's loaded results hold.
C30_EntryWrittenOnce ==
    /\ [](\A q \in Qids :
            /\ mv_stores[q] <= 1 /\ mv_calls[q] <= 1
            /\ q \in mv_raised => mv_file[q] = "")
    /\ [][/\ \A q \in Qids : mv_file[q] # None => mv_file'[q] = mv_file[q]
          /\ mv_pc' = "pipeline" => mv_results[mv_dataset[mv_pos]] = None]_vars
\* A third run over a file that holds an empty entry of a failed question: the run
\* is over, the question was tried once.
C30_Witness ==
    /\ mv_runs = 3 /\ mv_pc = "returned"
    /\ \E q \in mv_raised : mv_file[q] = "" /\ mv_calls[q] = 1
    /\ \A q \in Qids : mv_file[q] # None

====
